---------------------------- MODULE Spec2Model ----------------------------
(***************************************************************************)
(* A model of the "derive" layer of Phobos                                 *)
(* (src/phobos/blender/io/blender2phobos.py): the functions that read a    *)
(* Blender scene (objects with a parent pointer, a phobostype, a world     *)
(* matrix and an ordered bag of custom properties) and build the robot     *)
(* representation.                                                         *)
(*                                                                         *)
(* The derive functions are pure: every action of the model applies one of *)
(* them to an object of the scene and records the call and what it         *)
(* returned (or the exception it raised). The scenes are drawn in Init.    *)
(* For deriveRobot and deriveRepresentation, which call the other derive   *)
(* functions, invoked holds the derivers they called, in order, and logged *)
(* the levels of the messages they logged themselves.                      *)
(*                                                                         *)
(* Strings that are property keys are held as the sequence of their        *)
(* '/'-separated segments: "foo/bar" is <<"foo", "bar">>.                  *)
(* The @validate decorators are taken to pass the call through.            *)
(***************************************************************************)
EXTENDS Integers, Sequences, FiniteSets, TLC

VARIABLES scene, call, ret, annotations, fuseCalls, invoked, logged

vars == <<scene, call, ret, annotations, fuseCalls, invoked, logged>>

(***************************************************************************)
(* Bounds of the model.                                                    *)
(***************************************************************************)
MaxScale == 2
MaxCoord == 1
MaxProps == 3
MaxMass == 1
MaxMotors == 2

(***************************************************************************)
(* Python values.                                                          *)
(***************************************************************************)
None == 0

\* None where a record or a value may stand.
PyNone == [none |-> TRUE]

Raise(e) == [ok |-> FALSE, exc |-> e]
Ok(v) == [ok |-> TRUE, val |-> v]

\* A property value: a string or a number.
Str(x) == [s |-> x, n |-> 0]
Num(x) == [s |-> "", n |-> x]

NoCall == [op |-> "none", obj |-> None, arg |-> None]
NotRun == [ok |-> FALSE, exc |-> "not run"]

(***************************************************************************)
(* Vectors and matrices over the integers. A 4x4 world matrix is a tuple   *)
(* of four rows; its upper left 3x3 block is the rotation (times scale),   *)
(* its fourth column the translation.                                      *)
(***************************************************************************)
ISqrt(s) == CHOOSE n \in 0..s : n * n <= s /\ (n + 1) * (n + 1) > s

Dot3(u, v) == u[1] * v[1] + u[2] * v[2] + u[3] * v[3]

Column3(A, j) == <<A[1][j], A[2][j], A[3][j]>>

Mat3Vec(A, v) == <<Dot3(A[1], v), Dot3(A[2], v), Dot3(A[3], v)>>

Transpose3(A) == <<Column3(A, 1), Column3(A, 2), Column3(A, 3)>>

Mat3Mul(A, B) ==
    LET Bt == Transpose3(B)
    IN  <<Mat3Vec(Bt, A[1]), Mat3Vec(Bt, A[2]), Mat3Vec(Bt, A[3])>>

VecAdd(u, v) == <<u[1] + v[1], u[2] + v[2], u[3] + v[3]>>
VecNeg(u) == <<-u[1], -u[2], -u[3]>>

Identity3 == <<<<1, 0, 0>>, <<0, 1, 0>>, <<0, 0, 1>>>>
RotZ == <<<<0, -1, 0>>, <<1, 0, 0>>, <<0, 0, 1>>>>
RotX == <<<<1, 0, 0>>, <<0, 0, -1>>, <<0, 1, 0>>>>

Rotations == {Identity3, RotZ, Mat3Mul(RotZ, RotX)}

Translations == {<<x, MaxCoord - x, 1>> : x \in 0..MaxCoord}

\* The world matrix of an object rotated by R, scaled by s and moved to t.
MakeWorld(R, s, t) ==
    <<<<s * R[1][1], s * R[1][2], s * R[1][3], t[1]>>,
      <<s * R[2][1], s * R[2][2], s * R[2][3], t[2]>>,
      <<s * R[3][1], s * R[3][2], s * R[3][3], t[3]>>,
      <<0, 0, 0, 1>>>>

WorldMatrices ==
    {MakeWorld(R, s, t) : R \in Rotations, s \in 1..MaxScale, t \in Translations}

\* mathutils Matrix.normalized(): each of the three axis columns is divided
\* by its length; the translation column is left alone.
ColumnLength(m, j) == ISqrt(m[1][j] * m[1][j] + m[2][j] * m[2][j] + m[3][j] * m[3][j])

Scaled(x, len) == IF len # 0 THEN x \div len ELSE x

normalized(m) ==
    LET l1 == ColumnLength(m, 1)
        l2 == ColumnLength(m, 2)
        l3 == ColumnLength(m, 3)
    IN  <<<<Scaled(m[1][1], l1), Scaled(m[1][2], l2), Scaled(m[1][3], l3), m[1][4]>>,
          <<Scaled(m[2][1], l1), Scaled(m[2][2], l2), Scaled(m[2][3], l3), m[2][4]>>,
          <<Scaled(m[3][1], l1), Scaled(m[3][2], l2), Scaled(m[3][3], l3), m[3][4]>>,
          m[4]>>

(***************************************************************************)
(* representation.Pose: a position and a rotation, with composition and    *)
(* inversion.                                                              *)
(***************************************************************************)
PoseIdentity == [position |-> <<0, 0, 0>>, rotation |-> Identity3]

Pose_from_matrix(m) ==
    [position |-> <<m[1][4], m[2][4], m[3][4]>>,
     rotation |-> <<<<m[1][1], m[1][2], m[1][3]>>,
                    <<m[2][1], m[2][2], m[2][3]>>,
                    <<m[3][1], m[3][2], m[3][3]>>>>]

Pose_inv(p) ==
    [position |-> VecNeg(Mat3Vec(Transpose3(p.rotation), p.position)),
     rotation |-> Transpose3(p.rotation)]

Pose_dot(p, q) ==
    [position |-> VecAdd(Mat3Vec(p.rotation, q.position), p.position),
     rotation |-> Mat3Mul(p.rotation, q.rotation)]

(***************************************************************************)
(* The scene: a sequence of objects; an object is named by its index.      *)
(***************************************************************************)
Objects == 1..Len(scene)

Obj(name, phobostype, parent, matrix_world, props) ==
    [name |-> name, phobostype |-> phobostype, parent |-> parent,
     matrix_world |-> matrix_world, props |-> props]

\* obj.children: the objects directly below obj.
children(sc, obj) == {c \in 1..Len(sc) : sc[c].parent = obj}

\* The custom properties of an object, obj.items(), are an ordered sequence
\* of <<key, value>> pairs with distinct keys.
Keys(props) == {props[i][1] : i \in 1..Len(props)}
HasKey(props, k) == k \in Keys(props)
Get(props, k) == props[CHOOSE i \in 1..Len(props) : props[i][1] = k][2]

\* sUtils.getEffectiveParent(obj, ignore_selection=True, include_hidden=True):
\* the nearest ancestor that is a link.
RECURSIVE EffectiveAncestor(_, _)
EffectiveAncestor(sc, p) ==
    IF p = None THEN None
    ELSE IF sc[p].phobostype = "link" THEN p
    ELSE EffectiveAncestor(sc, sc[p].parent)

getEffectiveParent(sc, obj) == EffectiveAncestor(sc, sc[obj].parent)

(***************************************************************************)
(* deriveObjectPose                                                        *)
(***************************************************************************)
deriveObjectPose_NoInverse(sc, obj, effectiveparent) ==
    LET ep == IF effectiveparent = None THEN getEffectiveParent(sc, obj)
              ELSE effectiveparent
        w2p == IF ep # None
               THEN Pose_from_matrix(normalized(sc[ep].matrix_world))
               ELSE PoseIdentity
        w2o == Pose_from_matrix(normalized(sc[obj].matrix_world))
    IN  Pose_dot(w2p, w2o)

deriveObjectPose_NotNormalized(sc, obj, effectiveparent) ==
    LET ep == IF effectiveparent = None THEN getEffectiveParent(sc, obj)
              ELSE effectiveparent
        w2p == IF ep # None
               THEN Pose_from_matrix(normalized(sc[ep].matrix_world))
               ELSE PoseIdentity
        w2o == Pose_from_matrix(sc[obj].matrix_world)
    IN  Pose_dot(Pose_inv(w2p), w2o)

deriveObjectPose(sc, obj, effectiveparent) ==
    LET ep == IF effectiveparent = None THEN getEffectiveParent(sc, obj)
              ELSE effectiveparent
        w2p == IF ep # None
               THEN Pose_from_matrix(normalized(sc[ep].matrix_world))
               ELSE PoseIdentity
        w2o == Pose_from_matrix(normalized(sc[obj].matrix_world))
        p2o == Pose_dot(Pose_inv(w2p), w2o)
    IN  p2o

(***************************************************************************)
(* Scenes for the pose derivation: a link "base", an object "mid" that is  *)
(* not a link, and an object "part"; "part" hangs below nothing, "base" or *)
(* "mid", and "mid" below nothing or "base".                               *)
(***************************************************************************)
PoseScenes ==
    {<<Obj("base", "link", None, mb, <<>>),
       Obj("mid", "visual", pm, MakeWorld(RotX, 1, <<1, 0, 0>>), <<>>),
       Obj("part", "collision", pp, mp, <<>>)>> :
        mb \in WorldMatrices, mp \in WorldMatrices,
        pm \in {None, 1}, pp \in {None, 1, 2}}

InitPose ==
    /\ scene \in PoseScenes
    /\ call = NoCall
    /\ ret = NotRun
    /\ annotations = NotRun
    /\ fuseCalls = 0
    /\ invoked = <<>>
    /\ logged = <<>>

DeriveObjectPose(obj, effectiveparent) ==
    /\ call = NoCall
    /\ call' = [op |-> "deriveObjectPose", obj |-> obj, arg |-> effectiveparent]
    /\ ret' = Ok(deriveObjectPose(scene, obj, effectiveparent))
    /\ UNCHANGED <<scene, annotations, fuseCalls, invoked, logged>>

NextPose ==
    \E obj \in Objects, effectiveparent \in {None} \cup Objects :
        DeriveObjectPose(obj, effectiveparent)

SpecPose == InitPose /\ [][NextPose]_vars

\* The effective parent deriveObjectPose works with in the recorded call.
CallEffectiveParent ==
    IF call.arg # None THEN call.arg ELSE getEffectiveParent(scene, call.obj)

WorldPose(obj) == Pose_from_matrix(normalized(scene[obj].matrix_world))

\* A pose is rigid: its rotation times its transpose is the identity.
IsRigid(p) == Mat3Mul(p.rotation, Transpose3(p.rotation)) = Identity3

\* C1: with an effective parent (passed in or looked up), the returned pose
\* is inverse(P) o C for the normalized world poses P of the parent and C of
\* the object: composing P with the returned pose gives back C.
C1_PoseRelativeToParent ==
    (call.op = "deriveObjectPose" /\ CallEffectiveParent # None) =>
        /\ ret.ok
        /\ IsRigid(WorldPose(CallEffectiveParent))
        /\ Pose_dot(WorldPose(CallEffectiveParent), ret.val) = WorldPose(call.obj)
        /\ ret.val = Pose_dot(Pose_inv(WorldPose(CallEffectiveParent)),
                              WorldPose(call.obj))

\* C1 witness: a pose derived against a looked-up parent that is rotated,
\* scaled and away from the origin, reached through a non-link object.
C1_Witness ==
    /\ call.op = "deriveObjectPose"
    /\ call.arg = None
    /\ scene[call.obj].parent = 2
    /\ CallEffectiveParent = 1
    /\ scene[1].matrix_world = MakeWorld(RotZ, 2, <<1, 0, 1>>)
    /\ ret.ok
    /\ ret.val # WorldPose(call.obj)

\* C2: with no effective parent (none passed, none found) the parent
\* transform is the identity and the returned pose is the object's own
\* normalized world transform: its translation, and its axes at unit length.
C2_PoseWithoutParent ==
    (call.op = "deriveObjectPose" /\ CallEffectiveParent = None) =>
        /\ ret.ok
        /\ ret.val = WorldPose(call.obj)
        /\ \A i \in 1..3 :
              ret.val.position[i] = scene[call.obj].matrix_world[i][4]
        /\ IsRigid(ret.val)

\* C2 witness: a scaled, rotated object whose only ancestor is not a link.
C2_Witness ==
    /\ call.op = "deriveObjectPose"
    /\ call.arg = None
    /\ scene[call.obj].parent = 2
    /\ scene[2].parent = None
    /\ scene[call.obj].matrix_world = MakeWorld(RotZ, 2, <<0, 1, 1>>)
    /\ ret.ok
    /\ ret.val.rotation = RotZ

(***************************************************************************)
(* Reserved keys (phobos.blender.reserved_keys).                           *)
(***************************************************************************)
INTERNAL_KEYS == {<<"phobostype">>}
VISCOL_KEYS == {<<"geometry", "type">>}
JOINT_KEYS == {<<"joint", "name">>, <<"joint", "type">>, <<"joint", "axis">>}
LINK_KEYS == {<<"link", "name">>}
INTERFACE_KEYS == {<<"type">>, <<"direction">>}

(***************************************************************************)
(* Python dicts: a function from keys to entries; an entry is a value or a *)
(* nested dict.                                                            *)
(***************************************************************************)
EmptyDict == [k \in {} |-> 0]
Leaf(v) == <<"value", v>>
Dict(d) == <<"dict", d>>
IsDict(e) == e[1] = "dict"

DictSet(d, k, e) == [x \in DOMAIN d \cup {k} |-> IF x = k THEN e ELSE d[x]]

\* "/" in k
HasSep(k) == Len(k) > 1

\* k.startswith(seg + "/")
StartsWith(k, seg) == Len(k) > 1 /\ k[1] = seg

\* k.replace(seg + "/", ""): every occurrence of the segment followed by a
\* separator is removed (no segment of the model's keys ends in another).
RECURSIVE Replace(_, _)
Replace(k, seg) ==
    IF Len(k) <= 1 THEN k
    ELSE IF Head(k) = seg THEN Replace(Tail(k), seg)
    ELSE <<Head(k)>> \o Replace(Tail(k), seg)

(***************************************************************************)
(* The annotation loop of deriveCollision, deriveVisual, deriveInertial,   *)
(* deriveLink, deriveJoint and deriveInterface, on the items that pass the *)
(* function's filter (renamed where the function renames them):            *)
(*     if "/" not in k: annotations[k] = v                                 *)
(*     else: k1, k2 = k.split("/", 1)                                      *)
(*           if k1 not in annotations.keys(): annotations[k1] = {}         *)
(*           annotations[k1][k2] = v                                       *)
(* Item assignment on an entry that is a plain value raises TypeError.     *)
(***************************************************************************)
AnnotateItem(acc, k, v) ==
    IF ~acc.ok THEN acc
    ELSE IF ~HasSep(k) THEN Ok(DictSet(acc.val, k, Leaf(v)))
    ELSE LET k1 == <<Head(k)>>
             k2 == Tail(k)
             d1 == IF k1 \notin DOMAIN acc.val
                   THEN DictSet(acc.val, k1, Dict(EmptyDict))
                   ELSE acc.val
         IN  IF ~IsDict(d1[k1]) THEN Raise("TypeError")
             ELSE Ok(DictSet(d1, k1, Dict(DictSet(d1[k1][2], k2, Leaf(v)))))

RECURSIVE AnnotateFrom(_, _, _)
AnnotateFrom(items, i, acc) ==
    IF i > Len(items) THEN acc
    ELSE AnnotateFrom(items, i + 1, AnnotateItem(acc, items[i][1], items[i][2]))

Annotate(items) == AnnotateFrom(items, 1, Ok(EmptyDict))

\* The items whose key passes a filter, in their order.
RECURSIVE Without(_, _)
Without(items, excluded) ==
    IF items = <<>> THEN <<>>
    ELSE IF Head(items)[1] \in excluded THEN Without(Tail(items), excluded)
    ELSE <<Head(items)>> \o Without(Tail(items), excluded)

RECURSIVE WithoutPrefix(_, _)
WithoutPrefix(items, seg) ==
    IF items = <<>> THEN <<>>
    ELSE IF StartsWith(Head(items)[1], seg) THEN WithoutPrefix(Tail(items), seg)
    ELSE <<Head(items)>> \o WithoutPrefix(Tail(items), seg)

Renamed(items, seg) ==
    [i \in 1..Len(items) |-> <<Replace(items[i][1], seg), items[i][2]>>]

VisColExcluded_None == {}
VisColExcluded == VISCOL_KEYS \cup INTERNAL_KEYS
InertialExcluded == {<<"mass">>, <<"inertia">>, <<"origin">>}
LinkJointExcluded == JOINT_KEYS \cup LINK_KEYS \cup INTERNAL_KEYS
InterfaceExcluded == INTERFACE_KEYS \cup INTERNAL_KEYS

\* The items each function's loop stores, with the key it stores them under.
CollisionItems(props) == Without(props, VisColExcluded)
VisualItems(props) == Without(props, VisColExcluded)
InertialItems(props) == Without(props, InertialExcluded)
LinkItems(props) ==
    Renamed(WithoutPrefix(Without(props, LinkJointExcluded), "joint"), "link")
JointItems(props) ==
    Renamed(WithoutPrefix(Without(props, LinkJointExcluded), "link"), "joint")
InterfaceItems(props) == Without(props, InterfaceExcluded)

CollisionAnnotations(props) == Annotate(CollisionItems(props))
VisualAnnotations(props) == Annotate(VisualItems(props))
InertialAnnotations(props) == Annotate(InertialItems(props))
LinkAnnotations(props) == Annotate(LinkItems(props))
JointAnnotations(props) == Annotate(JointItems(props))
InterfaceAnnotations(props) == Annotate(InterfaceItems(props))

(***************************************************************************)
(* deriveAnnotation.deepen_dict: every key is split at its first '/' and   *)
(* the rest deepened in a dict of its own, which is stored at the prefix.  *)
(***************************************************************************)
RECURSIVE deepen_dict(_)
deepen_dict(items) ==
    IF items = <<>> THEN EmptyDict
    ELSE LET out == deepen_dict(SubSeq(items, 1, Len(items) - 1))
             k == items[Len(items)][1]
             v == items[Len(items)][2]
         IN  IF HasSep(k)
             THEN DictSet(out, <<Head(k)>>, Dict(deepen_dict(<<<<Tail(k), v>>>>)))
             ELSE DictSet(out, k, Leaf(v))

(***************************************************************************)
(* The derive functions. Each returns Ok(representation) or Raise(error).  *)
(* Materials, collision bitmasks and the sizes of geometries are data of   *)
(* the host's meshes and node graphs; a geometry is held as its type and   *)
(* the object it was read from.                                            *)
(***************************************************************************)
RECURSIVE SortedSeq(_)
SortedSeq(S) ==
    IF S = {} THEN <<>>
    ELSE LET m == CHOOSE x \in S : \A y \in S : x <= y
         IN  <<m>> \o SortedSeq(S \ {m})

\* The first exception among a sequence of results.
Failed(rs) == \E i \in 1..Len(rs) : ~rs[i].ok
FirstFailure(rs) ==
    rs[CHOOSE i \in 1..Len(rs) : ~rs[i].ok /\ \A j \in 1..(i - 1) : rs[j].ok]
Values(rs) == [i \in 1..Len(rs) |-> rs[i].val]

PrimitiveTypes == {"box", "sphere", "cylinder"}

deriveGeometry(sc, obj) ==
    IF ~HasKey(sc[obj].props, <<"geometry", "type">>) THEN Raise("KeyError")
    ELSE LET gtype == Get(sc[obj].props, <<"geometry", "type">>).s
         IN  IF gtype \in PrimitiveTypes \cup {"mesh"}
             THEN Ok([type |-> gtype, of |-> sc[obj].name])
             ELSE Raise("ValueError")

\* The children deriveCollision derives as primitives of a collision object.
CollisionPrimitives(sc, obj) ==
    SortedSeq({c \in children(sc, obj) :
        /\ sc[c].phobostype = "collision"
        /\ HasKey(sc[c].props, <<"geometry", "type">>)
        /\ Get(sc[c].props, <<"geometry", "type">>).s \in PrimitiveTypes})

RECURSIVE deriveCollision(_, _, _)
deriveCollision(sc, obj, linkobj) ==
    LET prims == CollisionPrimitives(sc, obj)
        primitives == [i \in 1..Len(prims) |-> deriveCollision(sc, prims[i], linkobj)]
        annots == CollisionAnnotations(sc[obj].props)
        geometry == deriveGeometry(sc, obj)
    IN  IF Failed(primitives) THEN FirstFailure(primitives)
        ELSE IF ~annots.ok THEN annots
        ELSE IF ~geometry.ok THEN geometry
        ELSE Ok([name |-> sc[obj].name,
                 geometry |-> geometry.val,
                 origin |-> deriveObjectPose(sc, obj, linkobj),
                 primitives |-> Values(primitives),
                 annotations |-> annots.val])

deriveVisual(sc, obj) ==
    LET annots == VisualAnnotations(sc[obj].props)
        geometry == deriveGeometry(sc, obj)
    IN  IF ~annots.ok THEN annots
        ELSE IF ~geometry.ok THEN geometry
        ELSE Ok([name |-> sc[obj].name,
                 geometry |-> geometry.val,
                 origin |-> deriveObjectPose(sc, obj, None),
                 annotations |-> annots.val])

deriveInertial(sc, obj) ==
    LET props == sc[obj].props
        inertia == IF HasKey(props, <<"inertia">>) THEN Get(props, <<"inertia">>)
                   ELSE PyNone
        annots == InertialAnnotations(props)
    IN  IF ~annots.ok THEN annots
        ELSE Ok([mass |-> IF HasKey(props, <<"mass">>) THEN Get(props, <<"mass">>)
                          ELSE Num(0),
                 inertia |-> inertia,
                 origin |-> deriveObjectPose(sc, obj, None),
                 annotations |-> annots.val])

deriveInterface(sc, obj) ==
    LET props == sc[obj].props
        annots == InterfaceAnnotations(props)
        parent == getEffectiveParent(sc, obj)
    IN  IF ~annots.ok THEN annots
        ELSE IF parent = None THEN Raise("AttributeError")
        ELSE IF ~HasKey(props, <<"type">>) \/ ~HasKey(props, <<"direction">>)
        THEN Raise("KeyError")
        ELSE Ok([name |-> sc[obj].name,
                 origin |-> deriveObjectPose(sc, obj, None),
                 parent |-> sc[parent].name,
                 type |-> Get(props, <<"type">>),
                 direction |-> Get(props, <<"direction">>),
                 annotations |-> annots.val])

\* The properties deriveAnnotation nests: props after deepen_dict.
AnnotationItems(props) == Without(props, INTERNAL_KEYS)
AnnotationProps(props) == deepen_dict(AnnotationItems(props))

\* After nesting the properties deriveAnnotation calls obj.split(":") on the
\* object itself, which has no such attribute.
deriveAnnotation(sc, obj) ==
    IF sc[obj].phobostype # "annotation" THEN Raise("AssertionError")
    ELSE Raise("AttributeError")

(***************************************************************************)
(* inertiamodel.fuse_inertia_data: the total mass, the mass-weighted       *)
(* centre of mass (a vector over the total mass) and the fused tensor of   *)
(* the inertial objects. With total mass zero the result is absent: the    *)
(* fuser returns nothing at all, or the zero mass with the centre of mass  *)
(* and the tensor it has summed.                                           *)
(***************************************************************************)
massOf(sc, obj) ==
    IF HasKey(sc[obj].props, <<"mass">>) THEN Get(sc[obj].props, <<"mass">>).n ELSE 0

RECURSIVE SumMass(_, _)
SumMass(sc, objs) ==
    IF objs = <<>> THEN 0 ELSE massOf(sc, Head(objs)) + SumMass(sc, Tail(objs))

RECURSIVE SumMoment(_, _)
SumMoment(sc, objs) ==
    IF objs = <<>> THEN <<0, 0, 0>>
    ELSE LET p == deriveObjectPose(sc, Head(objs), None).position
             m == massOf(sc, Head(objs))
         IN  VecAdd(<<m * p[1], m * p[2], m * p[3]>>, SumMoment(sc, Tail(objs)))

Fused(mass, com, inertia) == [mass |-> mass, com |-> com, inertia |-> inertia]

fuse_inertia_data(sc, inertials) ==
    LET total == SumMass(sc, inertials)
        com == [moment |-> SumMoment(sc, inertials), over |-> total]
        inertia == [fused |-> {sc[inertials[i]].name : i \in 1..Len(inertials)}]
    IN  IF total = 0
        THEN {Fused(PyNone, PyNone, PyNone), Fused(Num(0), com, inertia)}
        ELSE {Fused(Num(total), com, inertia)}

\* bool(v) of a value any() looks at.
Truthy(v) == v # PyNone /\ v # Num(0)

(***************************************************************************)
(* deriveLink: the representation of a link, and the number of calls of    *)
(* the inertia fuser it made. fuse is the fuser's result for the link's    *)
(* inertial children.                                                      *)
(***************************************************************************)
LinkParts_AnyAncestor(sc, obj, objectlist) ==
    SelectSeq(objectlist,
        LAMBDA item : /\ sc[item].phobostype \in {"visual", "collision", "approxsphere"}
                      /\ \E c \in children(sc, obj) :
                            LET RECURSIVE Below(_)
                                Below(x) == IF x = None THEN FALSE
                                            ELSE IF x = c THEN TRUE
                                            ELSE Below(sc[x].parent)
                            IN  Below(item))

LinkParts(sc, obj, objectlist) ==
    SelectSeq(objectlist,
        LAMBDA item : /\ sc[item].phobostype \in {"visual", "collision", "approxsphere"}
                      /\ getEffectiveParent(sc, item) = obj)

LinkInertials(sc, obj) ==
    SortedSeq({inert \in children(sc, obj) : sc[inert].phobostype = "inertial"})

DerivedPart(sc, part) ==
    IF sc[part].phobostype = "visual" THEN deriveVisual(sc, part)
    ELSE IF sc[part].phobostype = "collision" THEN deriveCollision(sc, part, None)
    ELSE Ok(PyNone)

\* What deriveLink returned or raised, the calls of the fuser it made and
\* its annotations when it reached their loop.
\* len(inertials) > 0: the fuser is called for a link with inertial children.
CallsFuser_Always(inertials) == TRUE

CallsFuser(inertials) == Len(inertials) > 0

LinkResult(r, n, a) == [ret |-> r, fuseCalls |-> n, annotations |-> a]

deriveLink(sc, obj, objectlist, fuse) ==
    LET parts == LinkParts(sc, obj, objectlist)
        derived == [i \in 1..Len(parts) |-> DerivedPart(sc, parts[i])]
        visuals == SelectSeq(parts, LAMBDA p : sc[p].phobostype = "visual")
        collisions == SelectSeq(parts, LAMBDA p : sc[p].phobostype = "collision")
        inertials == LinkInertials(sc, obj)
        called == IF CallsFuser(inertials) THEN 1 ELSE 0
        fused == IF CallsFuser(inertials) THEN fuse ELSE Fused(PyNone, PyNone, PyNone)
        noinfo == ~(Truthy(fused.mass) \/ Truthy(fused.com) \/ Truthy(fused.inertia))
        inertial == IF noinfo THEN PyNone
                    ELSE [mass |-> fused.mass, inertia |-> fused.inertia,
                          origin |-> fused.com]
        annots == LinkAnnotations(sc[obj].props)
    IN  IF Failed(derived) THEN LinkResult(FirstFailure(derived), 0, NotRun)
        ELSE IF ~noinfo /\ (fused.inertia = PyNone \/ fused.com = PyNone)
        THEN LinkResult(Raise("TypeError"), called, NotRun)
        ELSE IF ~annots.ok THEN LinkResult(annots, called, annots)
        ELSE LinkResult(
                Ok([name |-> sc[obj].name,
                    visuals |-> [i \in 1..Len(visuals) |-> deriveVisual(sc, visuals[i]).val],
                    collisions |-> [i \in 1..Len(collisions) |->
                                       deriveCollision(sc, collisions[i], None).val],
                    inertial |-> inertial,
                    annotations |-> annots.val]),
                called, annots)

(***************************************************************************)
(* deriveJoint                                                             *)
(***************************************************************************)
RECURSIVE IsBelow(_, _, _)
IsBelow(sc, obj, root) ==
    IF obj = None THEN FALSE
    ELSE IF obj = root THEN TRUE
    ELSE IsBelow(sc, sc[obj].parent, root)

\* sUtils.getChildren(root, phobostypes): the objects of the given types in
\* the tree of root.
getChildren(sc, root, phobostypes) ==
    SortedSeq({c \in 1..Len(sc) : sc[c].phobostype \in phobostypes /\ IsBelow(sc, c, root)})

\* obj.get(key, None)
GetOrNone(props, k) == IF HasKey(props, k) THEN Get(props, k) ELSE PyNone

\* any(k.startswith(a + "/" + b + "/") for k in obj.keys())
AnyUnder(props, a, b) ==
    \E k \in Keys(props) : Len(k) > 2 /\ k[1] = a /\ k[2] = b

AxisTypes == {"revolute", "prismatic", "continuous"}

JointAxis_Always(props) == GetOrNone(props, <<"joint", "axis">>)

JointAxis(props) ==
    IF Get(props, <<"joint", "type">>).s \in AxisTypes
    THEN Get(props, <<"joint", "axis">>)
    ELSE PyNone

JointParent_Self(sc, obj) == obj

JointParent(sc, obj) == getEffectiveParent(sc, obj)

deriveJoint(sc, obj) ==
    LET props == sc[obj].props
        parent == JointParent(sc, obj)
        annots == JointAnnotations(props)
        motor_children == getChildren(sc, obj, {"motor"})
    IN  IF parent = None THEN Ok(PyNone)
        ELSE IF ~annots.ok THEN annots
        ELSE IF Len(motor_children) > 1 THEN Raise("AssertionError")
        ELSE IF ~HasKey(props, <<"joint", "type">>) THEN Raise("KeyError")
        ELSE IF /\ Get(props, <<"joint", "type">>).s \in AxisTypes
                /\ ~HasKey(props, <<"joint", "axis">>)
        THEN Raise("KeyError")
        ELSE IF /\ HasKey(props, <<"joint", "mimic", "joint">>)
                /\ \/ ~HasKey(props, <<"joint", "mimic", "multiplier">>)
                   \/ ~HasKey(props, <<"joint", "mimic", "offset">>)
        THEN Raise("KeyError")
        ELSE Ok([name |-> IF HasKey(props, <<"joint", "name">>)
                          THEN Get(props, <<"joint", "name">>)
                          ELSE Str(sc[obj].name),
                 parent |-> sc[parent].name,
                 child |-> sc[obj].name,
                 joint_type |-> Get(props, <<"joint", "type">>),
                 axis |-> JointAxis(props),
                 origin |-> deriveObjectPose(sc, obj, None),
                 limit |-> IF AnyUnder(props, "joint", "limits")
                           THEN [effort |-> GetOrNone(props, <<"joint", "limits", "effort">>),
                                 velocity |-> GetOrNone(props, <<"joint", "limits", "velocity">>),
                                 lower |-> GetOrNone(props, <<"joint", "limits", "lower">>),
                                 upper |-> GetOrNone(props, <<"joint", "limits", "upper">>)]
                           ELSE PyNone,
                 dynamics |-> IF AnyUnder(props, "joint", "dynamics")
                              THEN [damping |-> GetOrNone(props, <<"joint", "dynamics", "damping">>),
                                    friction |-> GetOrNone(props, <<"joint", "dynamics", "friction">>),
                                    spring_stiffness |->
                                        GetOrNone(props, <<"joint", "dynamics", "spring_stiffness">>),
                                    spring_reference |->
                                        GetOrNone(props, <<"joint", "dynamics", "spring_reference">>)]
                              ELSE PyNone,
                 mimic |-> IF HasKey(props, <<"joint", "mimic", "joint">>)
                           THEN [joint |-> Get(props, <<"joint", "mimic", "joint">>),
                                 multiplier |-> Get(props, <<"joint", "mimic", "multiplier">>),
                                 offset |-> Get(props, <<"joint", "mimic", "offset">>)]
                           ELSE PyNone,
                 motor |-> IF Len(motor_children) = 1
                           THEN Str(sc[motor_children[1]].name)
                           ELSE PyNone])

(***************************************************************************)
(* The operations: one derive function applied once to an object of the    *)
(* scene, as deriveRobot and deriveRepresentation apply them: by the       *)
(* object's phobostype.                                                    *)
(***************************************************************************)
AllObjects == [i \in 1..Len(scene) |-> i]

Called(op, obj, arg) ==
    /\ call = NoCall
    /\ call' = [op |-> op, obj |-> obj, arg |-> arg]
    /\ UNCHANGED <<scene, invoked, logged>>

DeriveVisual(obj) ==
    /\ scene[obj].phobostype = "visual"
    /\ Called("deriveVisual", obj, None)
    /\ ret' = deriveVisual(scene, obj)
    /\ annotations' = VisualAnnotations(scene[obj].props)
    /\ UNCHANGED fuseCalls

DeriveCollision(obj) ==
    /\ scene[obj].phobostype = "collision"
    /\ Called("deriveCollision", obj, None)
    /\ ret' = deriveCollision(scene, obj, None)
    /\ annotations' =
          IF Failed([i \in 1..Len(CollisionPrimitives(scene, obj)) |->
                        deriveCollision(scene, CollisionPrimitives(scene, obj)[i], None)])
          THEN NotRun
          ELSE CollisionAnnotations(scene[obj].props)
    /\ UNCHANGED fuseCalls

DeriveInertial(obj) ==
    /\ scene[obj].phobostype = "inertial"
    /\ Called("deriveInertial", obj, None)
    /\ ret' = deriveInertial(scene, obj)
    /\ annotations' = InertialAnnotations(scene[obj].props)
    /\ UNCHANGED fuseCalls

DeriveInterface(obj) ==
    /\ scene[obj].phobostype = "interface"
    /\ Called("deriveInterface", obj, None)
    /\ ret' = deriveInterface(scene, obj)
    /\ annotations' = InterfaceAnnotations(scene[obj].props)
    /\ UNCHANGED fuseCalls

DeriveAnnotation(obj) ==
    /\ scene[obj].phobostype = "annotation"
    /\ Called("deriveAnnotation", obj, None)
    /\ ret' = deriveAnnotation(scene, obj)
    /\ annotations' = Ok(AnnotationProps(scene[obj].props))
    /\ UNCHANGED fuseCalls

\* What the fuser may return for the inertial children of a link.
FuseChoices(sc, obj) ==
    IF Len(LinkInertials(sc, obj)) > 0
    THEN fuse_inertia_data(sc, LinkInertials(sc, obj))
    ELSE {Fused(PyNone, PyNone, PyNone)}

DeriveLink(obj) ==
    /\ scene[obj].phobostype = "link"
    /\ \E fuse \in FuseChoices(scene, obj) :
          LET r == deriveLink(scene, obj, AllObjects, fuse)
          IN  /\ Called("deriveLink", obj, fuse)
              /\ ret' = r.ret
              /\ annotations' = r.annotations
              /\ fuseCalls' = fuseCalls + r.fuseCalls

DeriveJoint(obj) ==
    /\ scene[obj].phobostype = "link"
    /\ Called("deriveJoint", obj, None)
    /\ ret' = deriveJoint(scene, obj)
    /\ annotations' = IF getEffectiveParent(scene, obj) = None THEN NotRun
                      ELSE JointAnnotations(scene[obj].props)
    /\ UNCHANGED fuseCalls

(***************************************************************************)
(* Scenes for the annotation grouping: a link "base" and below it an       *)
(* object "item" of any phobostype with up to MaxProps properties.         *)
(***************************************************************************)
AnnotKeys ==
    {<<"foo">>, <<"foo", "bar">>, <<"foo", "baz">>, <<"geometry", "type">>,
     <<"mass">>, <<"link", "foo">>, <<"joint", "type">>, <<"joint", "foo", "bar">>,
     <<"type">>, <<"phobostype">>}

\* The value a key has in these scenes; no two keys have the same value.
AnnotValue(k) ==
    CASE k = <<"foo">> -> Str("value of foo")
      [] k = <<"foo", "bar">> -> Str("value of foo/bar")
      [] k = <<"foo", "baz">> -> Str("value of foo/baz")
      [] k = <<"geometry", "type">> -> Str("box")
      [] k = <<"mass">> -> Num(1)
      [] k = <<"link", "foo">> -> Str("value of link/foo")
      [] k = <<"joint", "type">> -> Str("fixed")
      [] k = <<"joint", "foo", "bar">> -> Str("value of joint/foo/bar")
      [] k = <<"type">> -> Str("plug")
      [] k = <<"phobostype">> -> Str("phobostype")

\* The sequences of at most n distinct keys.
RECURSIVE KeySeqs(_)
KeySeqs(n) ==
    IF n = 0 THEN {<<>>}
    ELSE LET shorter == KeySeqs(n - 1)
             longest == {ks \in shorter : Len(ks) = n - 1}
         IN  shorter \cup
             UNION {{Append(ks, k) : k \in AnnotKeys \ {ks[i] : i \in 1..Len(ks)}} :
                        ks \in longest}

AnnotProps == {[i \in 1..Len(ks) |-> <<ks[i], AnnotValue(ks[i])>>] : ks \in KeySeqs(MaxProps)}

AnnotTypes == {"visual", "collision", "inertial", "interface", "annotation", "link"}

AnnotScenes ==
    {<<Obj("base", "link", None, MakeWorld(Identity3, 1, <<0, 0, 0>>), <<>>),
       Obj("item", t, 1, MakeWorld(RotZ, 1, <<1, 0, 0>>), props)>> :
        t \in AnnotTypes, props \in AnnotProps}

InitAnnot ==
    /\ scene \in AnnotScenes
    /\ call = NoCall
    /\ ret = NotRun
    /\ annotations = NotRun
    /\ fuseCalls = 0
    /\ invoked = <<>>
    /\ logged = <<>>

NextAnnot ==
    \/ \E obj \in Objects : DeriveVisual(obj)
    \/ \E obj \in Objects : DeriveCollision(obj)
    \/ \E obj \in Objects : DeriveInertial(obj)
    \/ \E obj \in Objects : DeriveInterface(obj)
    \/ \E obj \in Objects : DeriveAnnotation(obj)
    \/ \E obj \in Objects : DeriveLink(obj)
    \/ \E obj \in Objects : DeriveJoint(obj)

SpecAnnot == InitAnnot /\ [][NextAnnot]_vars

(***************************************************************************)
(* Claims about the annotation grouping.                                   *)
(***************************************************************************)
GroupingOps ==
    {"deriveVisual", "deriveCollision", "deriveInertial", "deriveLink",
     "deriveJoint", "deriveInterface"}

\* The items the loop of the called function stores, under the key it
\* stores them with.
ItemsOf(op, props) ==
    CASE op = "deriveVisual" -> VisualItems(props)
      [] op = "deriveCollision" -> CollisionItems(props)
      [] op = "deriveInertial" -> InertialItems(props)
      [] op = "deriveLink" -> LinkItems(props)
      [] op = "deriveJoint" -> JointItems(props)
      [] op = "deriveInterface" -> InterfaceItems(props)
      [] op = "deriveAnnotation" -> AnnotationItems(props)

\* The annotations the called function builds from the properties.
AnnotationsOf(op, props) ==
    CASE op = "deriveVisual" -> VisualAnnotations(props)
      [] op = "deriveCollision" -> CollisionAnnotations(props)
      [] op = "deriveInertial" -> InertialAnnotations(props)
      [] op = "deriveLink" -> LinkAnnotations(props)
      [] op = "deriveJoint" -> JointAnnotations(props)
      [] op = "deriveInterface" -> InterfaceAnnotations(props)
      [] op = "deriveAnnotation" -> Ok(AnnotationProps(props))

CallProps == scene[call.obj].props

\* d holds v at top level for a key without '/', else in the nested mapping
\* at the key's prefix under the remainder.
HoldsGrouped(d, k, v) ==
    IF ~HasSep(k) THEN k \in DOMAIN d /\ d[k] = Leaf(v)
    ELSE /\ <<Head(k)>> \in DOMAIN d
         /\ IsDict(d[<<Head(k)>>])
         /\ Tail(k) \in DOMAIN d[<<Head(k)>>][2]
         /\ d[<<Head(k)>>][2][Tail(k)] = Leaf(v)

\* C3: after the grouping of any of the six functions, every non-excluded
\* key is in the result: at top level if it has no '/', else under its
\* prefix in a nested mapping at its remainder; for every set of keys.
C3_EveryKeyGrouped ==
    (call.op \in GroupingOps /\ annotations # NotRun) =>
        /\ annotations.ok
        /\ \A i \in 1..Len(ItemsOf(call.op, CallProps)) :
              HoldsGrouped(annotations.val,
                           ItemsOf(call.op, CallProps)[i][1],
                           ItemsOf(call.op, CallProps)[i][2])

\* The values stored anywhere in a nested mapping.
RECURSIVE LeafValues(_)
LeafValues(d) ==
    UNION {IF IsDict(d[k]) THEN LeafValues(d[k][2]) ELSE {d[k][2]} : k \in DOMAIN d}

\* The reserved keys each function excludes.
ReservedFor(op) ==
    CASE op \in {"deriveVisual", "deriveCollision"} -> VISCOL_KEYS \cup INTERNAL_KEYS
      [] op = "deriveInertial" -> {<<"mass">>, <<"inertia">>, <<"origin">>}
      [] op \in {"deriveLink", "deriveJoint"} ->
            JOINT_KEYS \cup LINK_KEYS \cup INTERNAL_KEYS
      [] op = "deriveInterface" -> INTERFACE_KEYS \cup INTERNAL_KEYS
      [] op = "deriveAnnotation" -> INTERNAL_KEYS

RemoveAt(s, i) == SubSeq(s, 1, i - 1) \o SubSeq(s, i + 1, Len(s))

\* C4: a key of the function's reserved set contributes no entry to the
\* annotations, at any level, whatever the other keys are: its value is
\* nowhere in the result, and the result is the one the object would give
\* without the key.
C4_ReservedKeysDropped ==
    (call.op \in GroupingOps \cup {"deriveAnnotation"} /\ annotations # NotRun) =>
        \A i \in 1..Len(CallProps) :
            CallProps[i][1] \in ReservedFor(call.op) =>
                /\ annotations.ok => CallProps[i][2] \notin LeafValues(annotations.val)
                /\ annotations = AnnotationsOf(call.op, RemoveAt(CallProps, i))

\* C4 witness: a visual with the reserved key 'geometry/type' between other
\* keys, whose annotations hold the other keys.
C4_Witness ==
    /\ call.op = "deriveVisual"
    /\ Len(CallProps) = 3
    /\ CallProps[2][1] = <<"geometry", "type">>
    /\ annotations.ok
    /\ DOMAIN annotations.val = {<<"foo">>, <<"joint">>}

VisitOrders(n) == {f \in [1..n -> 1..n] : \A i, j \in 1..n : f[i] = f[j] => i = j}

\* C5: the grouping does not depend on the order the keys are visited in:
\* every order gives the same nested mapping, and fails only if all do.
C5_OrderIndependent ==
    (call.op \in GroupingOps \cup {"deriveAnnotation"} /\ annotations # NotRun) =>
        \A f \in VisitOrders(Len(CallProps)) :
            AnnotationsOf(call.op, [i \in 1..Len(CallProps) |-> CallProps[f[i]]])
                = annotations

\* Following the segments of k in the nested mapping d reaches v.
RECURSIVE Reaches(_, _, _)
Reaches(d, k, v) ==
    IF ~HasSep(k) THEN k \in DOMAIN d /\ d[k] = Leaf(v)
    ELSE /\ <<Head(k)>> \in DOMAIN d
         /\ IsDict(d[<<Head(k)>>])
         /\ Reaches(d[<<Head(k)>>][2], Tail(k), v)

\* C6: deriveAnnotation keeps every non-internal property: following the
\* path p1/.../pn of its key in the nested result reaches its value.
C6_EveryPathReaches ==
    call.op = "deriveAnnotation" =>
        /\ annotations.ok
        /\ \A i \in 1..Len(AnnotationItems(CallProps)) :
              Reaches(annotations.val,
                      AnnotationItems(CallProps)[i][1],
                      AnnotationItems(CallProps)[i][2])

(***************************************************************************)
(* Scenes for the link derivation: the links "base" and "arm", a visual, a *)
(* collision and two inertial objects, each below one of the links.        *)
(***************************************************************************)
GeometryProp(t) == <<<<<<"geometry", "type">>, Str(t)>>>>
MassProp(m) == <<<<<<"mass">>, Num(m)>>>>

ArmProps ==
    <<<<<<"joint", "type">>, Str("fixed")>>, <<<<"foo", "bar">>, Str("value of foo/bar")>>>>

LinkScenes ==
    {<<Obj("base", "link", None, MakeWorld(Identity3, 1, <<0, 0, 0>>), <<>>),
       Obj("arm", "link", 1, MakeWorld(RotZ, 1, <<1, 0, 0>>), ArmProps),
       Obj("skin", "visual", pv, MakeWorld(Identity3, 1, <<1, 0, 0>>), gv),
       Obj("hull", "collision", pc, MakeWorld(Identity3, 1, <<1, 0, 0>>),
           GeometryProp("sphere")),
       Obj("inertial_a", "inertial", pa, MakeWorld(Identity3, 1, ta), MassProp(ma)),
       Obj("inertial_b", "inertial", pb, MakeWorld(Identity3, 1, <<0, 0, 1>>),
           MassProp(mb))>> :
        pv \in {1, 2}, pc \in {1, 2}, pa \in {1, 2}, pb \in {1, 2},
        gv \in {GeometryProp("box"), <<>>},
        ta \in Translations, ma \in 0..MaxMass, mb \in 0..MaxMass}

InitLink ==
    /\ scene \in LinkScenes
    /\ call = NoCall
    /\ ret = NotRun
    /\ annotations = NotRun
    /\ fuseCalls = 0
    /\ invoked = <<>>
    /\ logged = <<>>

NextLink == \E obj \in Objects : DeriveLink(obj)

SpecLink == InitLink /\ [][NextLink]_vars

\* The visual and collision objects of the scene whose nearest link
\* ancestor is obj.
PartsOf(obj, phobostype) ==
    {p \in Objects : scene[p].phobostype = phobostype /\ getEffectiveParent(scene, p) = obj}

HasInertialChild(obj) ==
    \E c \in Objects : scene[c].parent = obj /\ scene[c].phobostype = "inertial"

\* C7: deriveLink of a link without inertial child does not call the fuser
\* and returns a Link with inertial None; it is an error only if a part or
\* the annotations fail, and the visuals, collisions and annotations are
\* derived.
C7_NoInertialChild ==
    (call.op = "deriveLink" /\ ~HasInertialChild(call.obj)) =>
        /\ fuseCalls = 0
        /\ ret.ok <=>
              /\ \A p \in PartsOf(call.obj, "visual") : deriveVisual(scene, p).ok
              /\ \A p \in PartsOf(call.obj, "collision") : deriveCollision(scene, p, None).ok
              /\ LinkAnnotations(CallProps).ok
        /\ ret.ok =>
              /\ ret.val.inertial = PyNone
              /\ {ret.val.visuals[i] : i \in 1..Len(ret.val.visuals)} =
                    {deriveVisual(scene, p).val : p \in PartsOf(call.obj, "visual")}
              /\ {ret.val.collisions[i] : i \in 1..Len(ret.val.collisions)} =
                    {deriveCollision(scene, p, None).val : p \in PartsOf(call.obj, "collision")}
              /\ ret.val.annotations = LinkAnnotations(CallProps).val

\* C7 witness: the link "arm" with a visual, a collision and an annotation
\* but no inertial child, in a scene whose inertial objects are below
\* "base".
C7_Witness ==
    /\ call.op = "deriveLink"
    /\ call.obj = 2
    /\ ~HasInertialChild(2)
    /\ HasInertialChild(1)
    /\ ret.ok
    /\ Len(ret.val.visuals) = 1
    /\ Len(ret.val.collisions) = 1
    /\ ret.val.annotations # EmptyDict
    /\ ret.val.inertial = PyNone

TotalMass(obj) ==
    LET inertials == {c \in Objects : scene[c].parent = obj /\ scene[c].phobostype = "inertial"}
    IN  SumMass(scene, SortedSeq(inertials))

\* C8: when the inertial children of a link have total mass 0, deriveLink
\* returns a Link with inertial None, whatever the fuser returns beside the
\* zero mass; it builds no Inertial of mass 0 and the inertial data raises
\* no fault.
C8_ZeroMassIsAbsent ==
    (/\ call.op = "deriveLink"
     /\ HasInertialChild(call.obj)
     /\ TotalMass(call.obj) = 0
     /\ \A p \in PartsOf(call.obj, "visual") : deriveVisual(scene, p).ok
     /\ \A p \in PartsOf(call.obj, "collision") : deriveCollision(scene, p, None).ok) =>
        /\ ret.ok
        /\ ret.val.inertial = PyNone

(***************************************************************************)
(* Scenes for the joint derivation: a link "base", an object "mid" below   *)
(* it, a link "arm" below nothing, "base" or "mid", and up to MaxMotors    *)
(* motors below "arm".                                                     *)
(***************************************************************************)
JointTypes == {"revolute", "prismatic", "continuous", "fixed", "floating"}

Optional(item) == {<<>>, <<item>>}

JointProps ==
    {t \o a \o n \o l :
        t \in {<<>>} \cup {<<<<<<"joint", "type">>, Str(jt)>>>> : jt \in JointTypes},
        a \in Optional(<<<<"joint", "axis">>, Str("0 0 1")>>),
        n \in Optional(<<<<"joint", "name">>, Str("hinge")>>),
        l \in Optional(<<<<"joint", "limits", "upper">>, Num(1)>>)}

MotorNames == <<"motor", "motor.001", "motor.002", "motor.003">>

Motors(n) ==
    [i \in 1..n |-> Obj(MotorNames[i], "motor", 3,
                        MakeWorld(Identity3, 1, <<0, 0, 0>>), <<>>)]

JointScenes ==
    {<<Obj("base", "link", None, MakeWorld(Identity3, 1, <<0, 0, 0>>), <<>>),
       Obj("mid", tm, 1, MakeWorld(RotX, 1, <<1, 0, 0>>), <<>>),
       Obj("arm", "link", pa, MakeWorld(RotZ, 1, <<1, 0, 1>>), props)>> \o Motors(n) :
        tm \in {"link", "visual"}, pa \in {None, 1, 2}, props \in JointProps,
        n \in 0..MaxMotors}

InitJoint ==
    /\ scene \in JointScenes
    /\ call = NoCall
    /\ ret = NotRun
    /\ annotations = NotRun
    /\ fuseCalls = 0
    /\ invoked = <<>>
    /\ logged = <<>>

NextJoint == \E obj \in Objects : DeriveJoint(obj)

SpecJoint == InitJoint /\ [][NextJoint]_vars

IsJoint(r) == r.ok /\ r.val # PyNone

\* C9: a Joint that deriveJoint returns has the object as child and its
\* effective parent as parent, and the two names differ.
C9_ParentDiffersFromChild ==
    (call.op = "deriveJoint" /\ IsJoint(ret)) =>
        /\ ret.val.child = scene[call.obj].name
        /\ getEffectiveParent(scene, call.obj) # None
        /\ ret.val.parent = scene[getEffectiveParent(scene, call.obj)].name
        /\ ret.val.parent # ret.val.child

\* C9 witness: the joint of "arm", which hangs below "base" through an
\* object that is not a link.
C9_Witness ==
    /\ call.op = "deriveJoint"
    /\ call.obj = 3
    /\ scene[3].parent = 2
    /\ scene[2].phobostype = "visual"
    /\ IsJoint(ret)
    /\ ret.val.parent = "base"
    /\ ret.val.child = "arm"

HasAxisProp == HasKey(CallProps, <<"joint", "axis">>)
HasTypeProp == HasKey(CallProps, <<"joint", "type">>)
NeedsAxis == Get(CallProps, <<"joint", "type">>).s \in {"revolute", "prismatic", "continuous"}

\* C10: a returned Joint has an axis iff its type is revolute, prismatic or
\* continuous, and then it is the object's 'joint/axis'; such a type without
\* 'joint/axis' makes the derivation fail; any other type has axis None
\* even with a 'joint/axis' property.
C10_AxisIffTypeNeedsIt ==
    (call.op = "deriveJoint" /\ getEffectiveParent(scene, call.obj) # None) =>
        /\ IsJoint(ret) =>
              /\ HasTypeProp
              /\ ret.val.axis # PyNone <=> NeedsAxis
              /\ NeedsAxis => HasAxisProp /\ ret.val.axis = Get(CallProps, <<"joint", "axis">>)
        /\ (HasTypeProp /\ NeedsAxis /\ ~HasAxisProp) => ~ret.ok

\* C10 witness: a fixed joint derived from an object that has a
\* 'joint/axis' property.
C10_Witness ==
    /\ call.op = "deriveJoint"
    /\ IsJoint(ret)
    /\ ret.val.joint_type = Str("fixed")
    /\ HasAxisProp
    /\ ret.val.axis = PyNone

(***************************************************************************)
(* deriveMotor and deriveSensor                                            *)
(***************************************************************************)
MOTOR_KEYS == {<<"name">>, <<"joint">>}

\* A dict comprehension {k: v for k, v in items}: the keys are not split.
FlatDict(items) ==
    [k \in Keys(items) |-> Leaf(Get(items, k))]

\* parent.get("joint/name", parent.name)
JointNameOf(sc, obj) ==
    IF HasKey(sc[obj].props, <<"joint", "name">>)
    THEN Get(sc[obj].props, <<"joint", "name">>)
    ELSE Str(sc[obj].name)

deriveMotor(sc, obj) ==
    LET parent == getEffectiveParent(sc, obj)
        annots == FlatDict(Without(sc[obj].props, MOTOR_KEYS \cup INTERNAL_KEYS))
    IN  IF parent = None THEN Raise("AttributeError")
        ELSE IF sc[parent].phobostype # "link" THEN Raise("AssertionError")
        ELSE Ok([name |-> sc[obj].name,
                 joint |-> JointNameOf(sc, parent),
                 annotations |-> annots])

\* str.upper() on the sensor types of the model.
Upper(s) ==
    CASE s = "camera" -> "CAMERA"
      [] s = "CameraSensor" -> "CAMERASENSOR"
      [] s = "Joint6DOF" -> "JOINT6DOF"
      [] s = "MotorCurrent" -> "MOTORCURRENT"
      [] s = "NodePosition" -> "NODEPOSITION"
      [] OTHER -> s

\* The classes of sensor_representations and their _class_variables: one
\* class with 'link' and 'frame', one with 'joint', one with 'link' and
\* 'joint' and one with none of the three.
SensorClasses == {"IMU", "MotorCurrent", "Joint6DOF", "NodePosition"}

ClassVariables(sensor_type) ==
    CASE sensor_type = "IMU" -> {"name", "link", "frame"}
      [] sensor_type = "MotorCurrent" -> {"name", "joint"}
      [] sensor_type = "Joint6DOF" -> {"name", "link", "joint"}
      [] sensor_type = "NodePosition" -> {"name"}

\* values.get(k, default)
DictGet(d, k, default) == IF k \in DOMAIN d THEN d[k] ELSE Leaf(default)

\* values.pop(k): the dict without k.
DictPop(d, k) == [x \in DOMAIN d \ {k} |-> d[x]]

\* A camera is derived with deriveObjectPose; any other sensor gets the
\* defaults of the fields its class has and is built from the values.
deriveSensor(sc, obj) ==
    LET all == FlatDict(Without(sc[obj].props, INTERNAL_KEYS))
        parent == getEffectiveParent(sc, obj)
        sensor_type == all[<<"type">>][2].s
        values == DictPop(all, <<"type">>)
        vars_ == ClassVariables(sensor_type)
        v1 == IF "link" \in vars_
              THEN DictSet(values, <<"link">>,
                           DictGet(values, <<"link">>, Str(sc[parent].name)))
              ELSE values
        v2 == IF "joint" \in vars_
              THEN DictSet(v1, <<"link">>,
                           DictGet(v1, <<"joint">>, JointNameOf(sc, parent)))
              ELSE v1
        v3 == IF "frame" \in vars_
              THEN DictSet(v2, <<"frame">>,
                           DictGet(v2, <<"frame">>, Str(sc[parent].name)))
              ELSE v2
    IN  IF <<"type">> \notin DOMAIN all THEN Raise("KeyError")
        ELSE IF sensor_type = "" THEN Raise("AttributeError")
        \* deriveObjectPose(obj, logging) takes the flag as effective parent
        \* and reads its matrix_world.
        ELSE IF Upper(sensor_type) \in {"CAMERASENSOR", "CAMERA"}
        THEN Raise("AttributeError")
        ELSE IF sensor_type \notin SensorClasses THEN Raise("AttributeError")
        ELSE IF parent = None /\ vars_ \cap {"link", "joint", "frame"} # {}
        THEN Raise("AttributeError")
        ELSE Ok([type |-> sensor_type, values |-> v3])

(***************************************************************************)
(* derivePoses: the pose sets of the links of the model, in the order the  *)
(* pose names are first met.                                               *)
(***************************************************************************)
\* What poses[posename] is assigned for a link's entry.
PoseEntry(configuration, joint, value) == DictSet(EmptyDict, joint, Leaf(value))

\* poses after the property k of the link joint; poses is a sequence of
\* <<posename, configuration>>.
PosesWith(poses, sc, joint, k) ==
    LET posename == Tail(k)
        at == {i \in 1..Len(poses) : poses[i][1] = posename}
        known == IF at = {} THEN Append(poses, <<posename, EmptyDict>>) ELSE poses
        i == CHOOSE j \in 1..Len(known) : known[j][1] = posename
    IN  [known EXCEPT ![i] =
            <<posename, PoseEntry(known[i][2], JointNameOf(sc, joint), Get(sc[joint].props, k))>>]

RECURSIVE PosesOfKeys(_, _, _, _)
PosesOfKeys(poses, sc, joint, n) ==
    IF n = 0 THEN poses
    ELSE LET before == PosesOfKeys(poses, sc, joint, n - 1)
             k == sc[joint].props[n][1]
         IN  IF StartsWith(k, "pose") THEN PosesWith(before, sc, joint, k) ELSE before

RECURSIVE PosesOfJoints(_, _, _)
PosesOfJoints(sc, joints, n) ==
    IF n = 0 THEN <<>>
    ELSE PosesOfKeys(PosesOfJoints(sc, joints, n - 1), sc, joints[n],
                     Len(sc[joints[n]].props))

AllTypes ==
    {"link", "visual", "collision", "inertial", "sensor", "motor", "interface",
     "submechanism", "annotation", "approxsphere", "light"}

derivePoses(sc, root) ==
    LET joints == SelectSeq(getChildren(sc, root, AllTypes),
                            LAMBDA obj : sc[obj].phobostype = "link")
        poses == PosesOfJoints(sc, joints, Len(joints))
    IN  [i \in 1..Len(poses) |-> [name |-> poses[i][1], configuration |-> poses[i][2]]]

(***************************************************************************)
(* deriveSubmechanism. The joints of a submechanism are held as an array   *)
(* of the 'submechanism/id' values of their objects.                       *)
(***************************************************************************)
SUBMECHANISM_KEYS == {<<"jointnames">>}

\* A property value that is an array of numbers.
Arr(ids) == [array |-> ids]

\* sUtils.getObjectByProperty(property, value)
getObjectByProperty(sc, property, value) ==
    LET found == {o \in 1..Len(sc) :
                    HasKey(sc[o].props, property) /\ Get(sc[o].props, property) = value}
    IN  IF found = {} THEN None ELSE CHOOSE o \in found : \A x \in found : o <= x

deriveSubmechanism(sc, obj) ==
    LET props == sc[obj].props
        values == FlatDict(Without(props,
                      INTERNAL_KEYS \cup SUBMECHANISM_KEYS \cup {<<"type">>, <<"subtype">>}))
        joints == [prop \in SUBMECHANISM_KEYS |->
                      [i \in 1..Len(Get(props, prop).array) |->
                          getObjectByProperty(sc, <<"submechanism", "id">>,
                                              Num(Get(props, prop).array[i]))]]
    IN  IF \E prop \in SUBMECHANISM_KEYS : ~HasKey(props, prop) THEN Raise("KeyError")
        ELSE IF \E prop \in SUBMECHANISM_KEYS : DOMAIN Get(props, prop) # {"array"}
        THEN Raise("AttributeError")
        ELSE IF ~HasKey(props, <<"type">>) \/ ~HasKey(props, <<"subtype">>)
        THEN Raise("KeyError")
        ELSE Ok([submechtype |-> Get(props, <<"type">>),
                 submechsubtype |-> Get(props, <<"subtype">>),
                 joints |-> joints,
                 values |-> values])

(***************************************************************************)
(* deriveRobot. The robot is held as what deriveRobot hands to it: the     *)
(* arguments of the XMLRobot constructor and the entities it adds. The     *)
(* result also has the derivers deriveRobot called, in order, up to the    *)
(* first that raised, and the levels of the messages it logged.            *)
(***************************************************************************)
\* The result of the fuser for the inertial children of a link; absent
\* tells whether the fuser returns nothing at all for a total mass of zero.
FuseOf(sc, obj, absent) ==
    LET choices == FuseChoices(sc, obj)
    IN  IF Fused(PyNone, PyNone, PyNone) \in choices /\ absent
        THEN Fused(PyNone, PyNone, PyNone)
        ELSE CHOOSE f \in choices :
                f = Fused(PyNone, PyNone, PyNone) => choices = {f}

RootIsValid_Any(sc, root) == TRUE

RootIsValid(sc, root) == sc[root].phobostype = "link"

ModelName_RootFirst(sc, root, name) ==
    IF HasKey(sc[root].props, <<"model", "name">>)
    THEN Get(sc[root].props, <<"model", "name">>)
    ELSE IF name # "" THEN Str(name)
    ELSE Str("unnamed")

ModelName(sc, root, name) ==
    IF name # "" THEN Str(name)
    ELSE IF HasKey(sc[root].props, <<"model", "name">>)
    THEN Get(sc[root].props, <<"model", "name">>)
    ELSE Str("unnamed")

\* [derive(obj) for obj in objectlist if obj.phobostype == t]
Calls(op, objs, results) ==
    [i \in 1..Len(objs) |-> [op |-> op, obj |-> objs[i], result |-> results[i]]]

Results(calls) == [i \in 1..Len(calls) |-> calls[i].result]

Invocations(calls) == [i \in 1..Len(calls) |-> [op |-> calls[i].op, obj |-> calls[i].obj]]

\* The calls made: all of them, or those up to the first that raised.
CallsMade(calls) ==
    IF Failed(Results(calls))
    THEN SubSeq(calls, 1,
                CHOOSE i \in 1..Len(calls) :
                    ~calls[i].result.ok /\ \A j \in 1..(i - 1) : calls[j].result.ok)
    ELSE calls

RobotResult(r, i, l, n) == [ret |-> r, invoked |-> i, logged |-> l, fuseCalls |-> n]

RECURSIVE FuseCallsOf(_, _)
FuseCallsOf(linkresults, n) ==
    IF n = 0 THEN 0 ELSE linkresults[n].fuseCalls + FuseCallsOf(linkresults, n - 1)

\* The objects of one phobostype in the object list.
OfType(sc, objs, phobostype) ==
    SelectSeq(objs, LAMBDA obj : sc[obj].phobostype = phobostype)

\* deriveLink is called without an object list and takes the objects of the
\* scene.
LinkResults(sc, linkobjs, absent) ==
    [i \in 1..Len(linkobjs) |->
        deriveLink(sc, linkobjs[i], [o \in 1..Len(sc) |-> o],
                   FuseOf(sc, linkobjs[i], absent))]

LinkCalls(linkobjs, linkresults) ==
    Calls("deriveLink", linkobjs, [i \in 1..Len(linkobjs) |-> linkresults[i].ret])

JointCalls(sc, objs) ==
    Calls("deriveJoint", objs, [i \in 1..Len(objs) |-> deriveJoint(sc, objs[i])])

SensorCalls(sc, objs) ==
    Calls("deriveSensor", objs, [i \in 1..Len(objs) |-> deriveSensor(sc, objs[i])])

MotorCalls(sc, objs) ==
    Calls("deriveMotor", objs, [i \in 1..Len(objs) |-> deriveMotor(sc, objs[i])])

InterfaceCalls(sc, objs) ==
    Calls("deriveInterface", objs, [i \in 1..Len(objs) |-> deriveInterface(sc, objs[i])])

SubmechanismCalls(sc, objs) ==
    Calls("deriveSubmechanism", objs,
          [i \in 1..Len(objs) |-> deriveSubmechanism(sc, objs[i])])

AnnotationCalls(sc, objs) ==
    Calls("deriveAnnotation", objs, [i \in 1..Len(objs) |-> deriveAnnotation(sc, objs[i])])

\* The robot of the derived entities, or the first exception.
RobotOf(modelname, linkresults, links, joints, sensors, motors, interfaces, poses, subms, annots, calls) ==
    IF Failed(Results(calls))
    THEN RobotResult(CallsMade(calls)[Len(CallsMade(calls))].result,
                     Invocations(CallsMade(calls)), <<>>,
                     FuseCallsOf(linkresults, Len(CallsMade(links))))
    ELSE RobotResult(
            Ok([name |-> modelname,
                links |-> Values(Results(links)),
                joints |-> Values(Results(joints)),
                sensors |-> Values(Results(sensors)),
                motors |-> Values(Results(motors)),
                interfaces |-> Values(Results(interfaces)),
                poses |-> poses[1].result.val,
                submechanisms |-> Values(Results(subms)),
                annotations |-> Values(Results(annots))]),
            Invocations(calls), <<>>, FuseCallsOf(linkresults, Len(links)))

RobotOfCalls(modelname, linkresults, links, joints, sensors, motors, interfaces, poses, subms, annots) ==
    RobotOf(modelname, linkresults, links, joints, sensors, motors, interfaces, poses,
            subms, annots,
            links \o joints \o sensors \o motors \o interfaces \o poses \o subms \o annots)

RobotOfLinks(sc, root, modelname, objs, linkobjs, linkresults) ==
    RobotOfCalls(modelname, linkresults,
                 LinkCalls(linkobjs, linkresults),
                 JointCalls(sc, SelectSeq(objs,
                     LAMBDA obj : /\ sc[obj].phobostype = "link"
                                  /\ getEffectiveParent(sc, obj) # None)),
                 SensorCalls(sc, OfType(sc, objs, "sensor")),
                 MotorCalls(sc, OfType(sc, objs, "motor")),
                 InterfaceCalls(sc, OfType(sc, objs, "interface")),
                 Calls("derivePoses", <<root>>, <<Ok(derivePoses(sc, root))>>),
                 SubmechanismCalls(sc, OfType(sc, objs, "submechanism")),
                 AnnotationCalls(sc, OfType(sc, objs, "annotation")))

deriveRobot(sc, root, name, objectlist, absent) ==
    IF ~RootIsValid(sc, root) THEN RobotResult(Ok(PyNone), <<>>, <<"ERROR">>, 0)
    ELSE IF objectlist = PyNone
    THEN RobotOfLinks(sc, root, ModelName(sc, root, name),
                      getChildren(sc, root, AllTypes),
                      OfType(sc, getChildren(sc, root, AllTypes), "link"),
                      LinkResults(sc, OfType(sc, getChildren(sc, root, AllTypes), "link"),
                                  absent))
    ELSE RobotOfLinks(sc, root, ModelName(sc, root, name), objectlist.list,
                      OfType(sc, objectlist.list, "link"),
                      LinkResults(sc, OfType(sc, objectlist.list, "link"), absent))

\* A call of deriveRobot or deriveRepresentation and what it gave.
Returned(op, obj, arg, r) ==
    /\ call = NoCall
    /\ call' = [op |-> op, obj |-> obj, arg |-> arg]
    /\ ret' = r.ret
    /\ invoked' = r.invoked
    /\ logged' = r.logged
    /\ fuseCalls' = fuseCalls + r.fuseCalls
    /\ UNCHANGED <<scene, annotations>>

DeriveRobot(root, name, objectlist, absent) ==
    Returned("deriveRobot", root, [name |-> name, objectlist |-> objectlist],
             deriveRobot(scene, root, name, objectlist, absent))

(***************************************************************************)
(* Scenes for the robot derivation: the links "base" and "arm", a          *)
(* collision "hull" below one of them, a visual "skin" below one of them   *)
(* or below "hull", an inertial below "arm", a motor below nothing or one  *)
(* of the links, and one more object that is a sensor, an interface, a     *)
(* submechanism or an annotation.                                          *)
(***************************************************************************)
BaseProps == Optional(<<<<"model", "name">>, Str("rover")>>)

RobotArmProps ==
    {<<<<<<"joint", "type">>, Str("fixed")>>>> \o n :
        n \in Optional(<<<<"joint", "name">>, Str("hinge")>>)}

ExtraProps(t) ==
    CASE t = "sensor" -> <<<<<<"type">>, Str("IMU")>>>>
      [] t = "interface" -> <<<<<<"type">>, Str("plug")>>, <<<<"direction">>, Str("out")>>>>
      [] t = "submechanism" ->
            <<<<<<"type">>, Str("serial")>>, <<<<"subtype">>, Str("chain")>>,
              <<<<"jointnames">>, Arr(<<1>>)>>>>
      [] t = "annotation" -> <<<<<<"foo">>, Str("value of foo")>>>>

RobotScenes ==
    {<<Obj("base", "link", None, MakeWorld(Identity3, 1, <<0, 0, 0>>), pb),
       Obj("arm", "link", 1, MakeWorld(RotZ, 1, <<1, 0, 0>>), pa),
       Obj("hull", "collision", ph, MakeWorld(Identity3, 1, <<1, 0, 0>>),
           GeometryProp("box")),
       Obj("skin", "visual", ps, MakeWorld(Identity3, 1, <<1, 0, 1>>), gs),
       Obj("inertial", "inertial", 2, MakeWorld(Identity3, 1, <<0, 0, 1>>), MassProp(1)),
       Obj("motor", "motor", pm, MakeWorld(Identity3, 1, <<0, 0, 0>>), <<>>),
       Obj("extra", t, 2, MakeWorld(Identity3, 1, <<0, 0, 0>>), ExtraProps(t))>> :
        pb \in BaseProps, pa \in RobotArmProps, ph \in {1, 2}, ps \in {1, 2, 3},
        gs \in {GeometryProp("mesh"), <<>>}, pm \in {None, 1, 2},
        t \in {"sensor", "interface", "submechanism", "annotation"}}

InitRobot ==
    /\ scene \in RobotScenes
    /\ call = NoCall
    /\ ret = NotRun
    /\ annotations = NotRun
    /\ fuseCalls = 0
    /\ invoked = <<>>
    /\ logged = <<>>

\* The object lists deriveRobot is called with: none, or the objects of the
\* scene without the first.
ObjectLists == {PyNone, [list |-> Tail(AllObjects)]}

NextRobot ==
    \E root \in Objects, name \in {"", "robot"}, objectlist \in ObjectLists,
       absent \in BOOLEAN :
        DeriveRobot(root, name, objectlist, absent)

SpecRobot == InitRobot /\ [][NextRobot]_vars

(***************************************************************************)
(* Claims about deriveRobot.                                               *)
(***************************************************************************)
\* deriveRobot was called and returned a robot.
RobotBuilt == call.op = "deriveRobot" /\ ret.ok /\ ret.val # PyNone

\* The object list deriveRobot worked with in the recorded call.
RobotObjects ==
    LET objs == IF call.arg.objectlist = PyNone
                THEN getChildren(scene, call.obj, AllTypes)
                ELSE call.arg.objectlist.list
    IN  {objs[i] : i \in 1..Len(objs)}

Elements(seq) == {seq[i] : i \in 1..Len(seq)}

\* The derived sub-elements of a Link that come from the object p.
Holds(link, p) ==
    {e \in Elements(link.visuals) \cup Elements(link.collisions) : e.name = scene[p].name}

LinksHolding(p) == {i \in 1..Len(ret.val.links) : Holds(ret.val.links[i], p) # {}}

DerivedAs(p) ==
    IF scene[p].phobostype = "visual" THEN deriveVisual(scene, p)
    ELSE deriveCollision(scene, p, None)

\* C11: in the robot of one deriveRobot pass, a visual or collision object
\* of the object list is among the visuals (collisions) of the Link of its
\* effective parent only, as its own derived representation: of no Link if
\* it has no effective parent, of at most one Link, and of exactly one if
\* its effective parent is a link of the object list.
C11_LinksOwnTheirParts ==
    RobotBuilt =>
        \A p \in RobotObjects :
            scene[p].phobostype \in {"visual", "collision"} =>
                LET ep == getEffectiveParent(scene, p)
                IN  /\ \A i \in LinksHolding(p) :
                          /\ ep # None
                          /\ ret.val.links[i].name = scene[ep].name
                          /\ Holds(ret.val.links[i], p) = {DerivedAs(p).val}
                          /\ scene[p].phobostype = "visual" =>
                                DerivedAs(p).val \in Elements(ret.val.links[i].visuals)
                          /\ scene[p].phobostype = "collision" =>
                                DerivedAs(p).val \in Elements(ret.val.links[i].collisions)
                    /\ Cardinality(LinksHolding(p)) <= 1
                    /\ (ep # None /\ ep \in RobotObjects) =>
                          Cardinality(LinksHolding(p)) = 1

\* C11 witness: a robot with the Links of "base" and "arm", where the
\* visual "skin" hangs below the collision "hull" below "arm" and is a
\* visual of the Link "arm" only.
C11_Witness ==
    /\ RobotBuilt
    /\ call.obj = 1
    /\ call.arg.objectlist = PyNone
    /\ scene[4].parent = 3
    /\ scene[3].parent = 2
    /\ Len(ret.val.links) = 2
    /\ LinksHolding(4) = {2}
    /\ LinksHolding(3) = {2}
    /\ ret.val.links[1].visuals = <<>>

\* C12: deriveRobot with a root that is not a link logs an error, returns
\* None and calls no deriver (of links, joints, sensors, motors, interfaces,
\* poses, submechanisms or annotations), whatever the object list holds.
C12_InvalidRootDerivesNothing ==
    (call.op = "deriveRobot" /\ scene[call.obj].phobostype # "link") =>
        /\ ret = Ok(PyNone)
        /\ logged = <<"ERROR">>
        /\ invoked = <<>>
        /\ fuseCalls = 0

\* C12 witness: deriveRobot of the visual "skin" with an object list that
\* holds a link with an inertial child, a motor and a sensor.
C12_Witness ==
    /\ call.op = "deriveRobot"
    /\ scene[call.obj].phobostype = "visual"
    /\ call.arg.objectlist # PyNone
    /\ {scene[o].phobostype : o \in RobotObjects} =
          {"link", "collision", "visual", "inertial", "motor", "sensor"}
    /\ ret = Ok(PyNone)
    /\ invoked = <<>>

MotorLinksListed ==
    \A o \in RobotObjects :
        scene[o].phobostype = "motor" => getEffectiveParent(scene, o) \in RobotObjects

\* C16: in the robot deriveRobot returns for an object list that holds the
\* links of its motors, every motor object of the list has its Motor, and
\* every Motor's joint is the name of a Joint of the robot's joint list,
\* also for a motor attached to the root link.
C16_MotorsReferToJoints ==
    (RobotBuilt /\ MotorLinksListed) =>
        /\ \A o \in RobotObjects :
              scene[o].phobostype = "motor" =>
                  \E m \in Elements(ret.val.motors) : m.name = scene[o].name
        /\ \A m \in Elements(ret.val.motors) :
              \E j \in Elements(ret.val.joints) : j.name = m.joint

(***************************************************************************)
(* deriveRepresentation: the deriver of the object's phobostype, with a    *)
(* KeyError of the deriver turned into None.                               *)
(***************************************************************************)
DispatchTypes == {"inertial", "visual", "collision", "sensor", "motor", "annotation"}

DeriverOf(phobostype) ==
    CASE phobostype = "inertial" -> "deriveInertial"
      [] phobostype = "visual" -> "deriveVisual"
      [] phobostype = "collision" -> "deriveCollision"
      [] phobostype = "sensor" -> "deriveSensor"
      [] phobostype = "motor" -> "deriveMotor"
      [] phobostype = "annotation" -> "deriveAnnotation"

Dispatch(sc, obj) ==
    CASE sc[obj].phobostype = "inertial" -> deriveInertial(sc, obj)
      [] sc[obj].phobostype = "visual" -> deriveVisual(sc, obj)
      [] sc[obj].phobostype = "collision" -> deriveCollision(sc, obj, None)
      [] sc[obj].phobostype = "sensor" -> deriveSensor(sc, obj)
      [] sc[obj].phobostype = "motor" -> deriveMotor(sc, obj)
      [] sc[obj].phobostype = "annotation" -> deriveAnnotation(sc, obj)

deriveRepresentation(sc, obj) ==
    IF sc[obj].phobostype \notin DispatchTypes
    THEN RobotResult(Ok(PyNone), <<>>, <<>>, 0)
    ELSE LET repr_instance == Dispatch(sc, obj)
             made == <<[op |-> DeriverOf(sc[obj].phobostype), obj |-> obj]>>
         IN  IF ~repr_instance.ok /\ repr_instance.exc = "KeyError"
             THEN RobotResult(Ok(PyNone), made, <<"DEBUG">>, 0)
             ELSE RobotResult(repr_instance, made, <<>>, 0)

DeriveRepresentation(obj) ==
    Returned("deriveRepresentation", obj, None, deriveRepresentation(scene, obj))

(***************************************************************************)
(* Scenes for deriveRepresentation: a link "base" and an object "item" of  *)
(* any phobostype, below "base" or below nothing, with or without the      *)
(* properties its deriver reads.                                           *)
(***************************************************************************)
ReprProps ==
    {g \o t \o f \o fb :
        g \in {<<>>, GeometryProp("box"), GeometryProp("torus")},
        t \in {<<>>} \cup {<<<<<<"type">>, Str(st)>>>> : st \in {"IMU", "camera", "Lidar"}},
        f \in Optional(<<<<"foo">>, Str("value of foo")>>),
        fb \in Optional(<<<<"foo", "bar">>, Str("value of foo/bar")>>)}

ReprScenes ==
    {<<Obj("base", "link", None, MakeWorld(Identity3, 1, <<0, 0, 0>>), <<>>),
       Obj("item", t, p, MakeWorld(RotZ, 1, <<1, 0, 0>>), props)>> :
        t \in DispatchTypes \cup {"link", "interface", "submechanism", "light"},
        p \in {None, 1}, props \in ReprProps}

InitRepr ==
    /\ scene \in ReprScenes
    /\ call = NoCall
    /\ ret = NotRun
    /\ annotations = NotRun
    /\ fuseCalls = 0
    /\ invoked = <<>>
    /\ logged = <<>>

NextRepr == \E obj \in Objects : DeriveRepresentation(obj)

SpecRepr == InitRepr /\ [][NextRepr]_vars

\* The object of the recorded call lacks a property its deriver reads by
\* index: 'geometry/type' of a visual or collision, 'type' of a sensor.
LacksProperty ==
    \/ /\ scene[call.obj].phobostype \in {"visual", "collision"}
       /\ ~HasKey(CallProps, <<"geometry", "type">>)
    \/ /\ scene[call.obj].phobostype = "sensor"
       /\ ~HasKey(CallProps, <<"type">>)

\* C14: deriveRepresentation calls the deriver of the object's phobostype
\* (inertial, visual, collision, sensor, motor, annotation) and returns what
\* it returns; for any other phobostype it calls none and returns None; and
\* for an object that lacks a property its deriver reads it returns None
\* and does not raise.
C14_DispatchAndMissingData ==
    call.op = "deriveRepresentation" =>
        /\ scene[call.obj].phobostype \notin DispatchTypes =>
              ret = Ok(PyNone) /\ invoked = <<>>
        /\ scene[call.obj].phobostype \in DispatchTypes =>
              /\ invoked = <<[op |-> DeriverOf(scene[call.obj].phobostype), obj |-> call.obj]>>
              /\ Dispatch(scene, call.obj).ok => ret = Dispatch(scene, call.obj)
        /\ LacksProperty => ret = Ok(PyNone)

(***************************************************************************)
(* Scenes for derivePoses: the link "base", the link "arm" below it and an *)
(* object "tool" below "arm" that is a link or not; each has none, one or  *)
(* both of the poses 'home' and 'up'.                                      *)
(***************************************************************************)
PoseProps(v) ==
    {h \o u :
        h \in Optional(<<<<"pose", "home">>, Num(v)>>),
        u \in Optional(<<<<"pose", "up">>, Num(v + 1)>>)}

PosesScenes ==
    {<<Obj("base", "link", None, MakeWorld(Identity3, 1, <<0, 0, 0>>), pb),
       Obj("arm", "link", 1, MakeWorld(RotZ, 1, <<1, 0, 0>>), n \o pa),
       Obj("tool", t, 2, MakeWorld(Identity3, 1, <<1, 0, 1>>), pt)>> :
        pb \in PoseProps(0), pa \in PoseProps(2), pt \in PoseProps(4),
        n \in Optional(<<<<"joint", "name">>, Str("hinge")>>),
        t \in {"link", "visual"}}

InitPoses ==
    /\ scene \in PosesScenes
    /\ call = NoCall
    /\ ret = NotRun
    /\ annotations = NotRun
    /\ fuseCalls = 0
    /\ invoked = <<>>
    /\ logged = <<>>

DerivePoses(root) ==
    /\ Called("derivePoses", root, None)
    /\ ret' = Ok(derivePoses(scene, root))
    /\ UNCHANGED <<annotations, fuseCalls>>

NextPoses == \E root \in Objects : DerivePoses(root)

SpecPoses == InitPoses /\ [][NextPoses]_vars

\* The links below the root of the recorded call, the root included.
LinksBelowRoot ==
    {l \in Objects : scene[l].phobostype = "link" /\ IsBelow(scene, l, call.obj)}

\* The 'pose/<name>' keys of a link.
PoseKeys(l) == {k \in Keys(scene[l].props) : Len(k) > 1 /\ k[1] = "pose"}

PoseNames == UNION {{Tail(k) : k \in PoseKeys(l)} : l \in LinksBelowRoot}

\* C15: derivePoses returns one pose set per pose name, and the
\* configuration of the pose set of a name has, for every link below the
\* root with a 'pose/<name>' property, that property's value at the link's
\* joint name; the links that share a pose name are all in it.
C15_PoseSetsKeepEveryLink ==
    call.op = "derivePoses" =>
        /\ ret.ok
        /\ Len(ret.val) = Cardinality(PoseNames)
        /\ {ret.val[i].name : i \in 1..Len(ret.val)} = PoseNames
        /\ \A i \in 1..Len(ret.val) :
              \A l \in LinksBelowRoot :
                 \A k \in PoseKeys(l) :
                    Tail(k) = ret.val[i].name =>
                        /\ JointNameOf(scene, l) \in DOMAIN ret.val[i].configuration
                        /\ ret.val[i].configuration[JointNameOf(scene, l)] =
                              Leaf(Get(scene[l].props, k))

(***************************************************************************)
(* Scenes for deriveSensor: a link "base" with or without a 'joint/name',  *)
(* and below it or below nothing a sensor of one of the sensor classes or  *)
(* a camera, with or without 'link', 'joint' and 'frame' of its own.       *)
(***************************************************************************)
SensorProps ==
    {<<<<<<"type">>, Str(st)>>>> \o l \o j \o f :
        st \in SensorClasses \cup {"camera"},
        l \in Optional(<<<<"link">>, Str("given link")>>),
        j \in Optional(<<<<"joint">>, Str("given joint")>>),
        f \in Optional(<<<<"frame">>, Str("given frame")>>)}

SensorScenes ==
    {<<Obj("base", "link", None, MakeWorld(Identity3, 1, <<0, 0, 0>>), n),
       Obj("sensor", "sensor", p, MakeWorld(RotZ, 1, <<1, 0, 0>>), props)>> :
        n \in Optional(<<<<"joint", "name">>, Str("hinge")>>),
        p \in {None, 1}, props \in SensorProps}

InitSensor ==
    /\ scene \in SensorScenes
    /\ call = NoCall
    /\ ret = NotRun
    /\ annotations = NotRun
    /\ fuseCalls = 0
    /\ invoked = <<>>
    /\ logged = <<>>

DeriveSensor(obj) ==
    /\ scene[obj].phobostype = "sensor"
    /\ Called("deriveSensor", obj, None)
    /\ ret' = deriveSensor(scene, obj)
    /\ UNCHANGED <<annotations, fuseCalls>>

NextSensor == \E obj \in Objects : DeriveSensor(obj)

SpecSensor == InitSensor /\ [][NextSensor]_vars

\* The default of a field: the name of the effective parent, and for
\* 'joint' its joint name.
SensorDefault(field) ==
    LET parent == getEffectiveParent(scene, call.obj)
    IN  IF field = "joint" THEN JointNameOf(scene, parent) ELSE Str(scene[parent].name)

\* C17: the values a non-camera sensor is built from have, for each of
\* 'link', 'joint' and 'frame': the object's own value if it has one; else
\* the default from the effective parent, under the field's own name, if
\* the sensor class has the field; else no entry.
C17_DefaultsUnderOwnField ==
    (call.op = "deriveSensor" /\ ret.ok) =>
        \A field \in {"link", "joint", "frame"} :
            IF HasKey(CallProps, <<field>>)
            THEN /\ <<field>> \in DOMAIN ret.val.values
                 /\ ret.val.values[<<field>>] = Leaf(Get(CallProps, <<field>>))
            ELSE IF field \in ClassVariables(ret.val.type)
            THEN /\ <<field>> \in DOMAIN ret.val.values
                 /\ ret.val.values[<<field>>] = Leaf(SensorDefault(field))
            ELSE <<field>> \notin DOMAIN ret.val.values

=============================================================================
